---- MODULE Spec2Model ----
(***************************************************************************)
(* A model of the two training scripts of the repository:                  *)
(*   src/randomforest.py    (called "randomforest" below)                  *)
(*   src/3_randomforest.py  (called "3_randomforest" below)                *)
(*                                                                         *)
(* Spec    : a run of either script, stage by stage, from the map file to  *)
(*           the last plot.  Feature vectors are kept by their length, the *)
(*           image they come from and the augmentation applied.            *)
(* SpecMap : get_training_data on the text of a map file.                  *)
(* SpecFn  : the three per-image transformations of 3_randomforest.py on   *)
(*           small tiles, pixel by pixel.                                  *)
(***************************************************************************)
EXTENDS Integers, Sequences, FiniteSets, TLC

VARIABLES
    script,             \* which script runs
    pc,                 \* the stage the script is about to run
    raised,             \* the exceptions raised so far, in order
    log,                \* the stages that have run, in order
    mapfile,            \* the lines of map.txt, once read
    rasters,            \* the image file found at each image path, once opened
    docs,               \* the annotation file found at each label path, once parsed
    image_path, label_path,
    images, labels,
    augmented_images, augmented_labels,
    augmented_images2, augmented_labels2,
    y_train, y_test,    \* class -> number of samples (the arrays up to order)
    classes_,           \* label_encoder.classes_
    fitted,             \* the classifier has been fitted
    y_pred,             \* <<true class, predicted class>> -> number of test samples
    predicted,          \* predict has returned
    printed,            \* the lines of the confusion-matrix printout
    written,            \* the files written, in order
    map_text, map_out,  \* SpecMap: the map file's text and what get_training_data gave
    tile, fn_out        \* SpecFn: the tile and what each transformation gave

vars == << script, pc, raised, log, mapfile, rasters, docs, image_path, label_path,
           images, labels, augmented_images, augmented_labels,
           augmented_images2, augmented_labels2, y_train, y_test, classes_,
           fitted, y_pred, predicted, printed, written,
           map_text, map_out, tile, fn_out >>

runVars == << script, pc, raised, log, mapfile, rasters, docs, image_path, label_path,
              images, labels, augmented_images, augmented_labels,
              augmented_images2, augmented_labels2, y_train, y_test, classes_,
              fitted, y_pred, predicted, printed, written >>

-----------------------------------------------------------------------------
(* Bounds and program constants *)

\* The longest map file whose lines, images and annotations are drawn freely.
MaxLines == 2

\* randomforest.py: step_size=50
step_size == 50
\* 3_randomforest.py: images[i].reshape(50, 50, 3)
sample_side == 50
\* 3_randomforest.py: num_samples = 5
num_samples == 5
\* num_images = 5 in both scripts
num_images == 5
\* test_size=0.2 is one fifth
test_size_inv == 5

Range(s) == { s[i] : i \in DOMAIN s }

Last(s) == s[Len(s)]

RECURSIVE SumOver(_, _)
SumOver(f, S) ==
    IF S = {} THEN 0
    ELSE LET x == CHOOSE y \in S : TRUE IN f[x] + SumOver(f, S \ {x})

-----------------------------------------------------------------------------
(* The files a run can meet *)

\* The class names of the annotations, in sorted order.
ClassOrder == << "building", "tree" >>
Classes == Range(ClassOrder)

Scripts == { "randomforest", "3_randomforest" }

Tile(w, h, n, k) == [ status |-> "ok", width |-> w, height |-> h, count |-> n, opaque |-> k ]
MissingRaster == [ status |-> "missing", width |-> 0, height |-> 0, count |-> 0, opaque |-> 0 ]
\* A full-size four-band tile with every pixel opaque.
GoodTile == Tile(step_size, step_size, 4, step_size * step_size)

\* width, height, number of bands, number of pixels whose alpha is not 0
RasterFiles ==
    { MissingRaster,
      GoodTile,
      Tile(step_size, step_size, 4, step_size),
      Tile(step_size, step_size, 4, 0),
      Tile(step_size, step_size, 3, 0),
      Tile(1, 1, 4, 1),
      Tile(2, 1, 4, 2) }

Doc(names) == [ status |-> "ok", names |-> names ]
DocFiles ==
    { [ status |-> "missing", names |-> << >> ],
      [ status |-> "malformed", names |-> << >> ],
      Doc(<< >>), Doc(<< "building" >>), Doc(<< "tree" >>),
      Doc(<< "building", "tree" >>) }
GoodDoc == Doc(<< "tree" >>)

\* The smallest map with which the script has num_images test samples to show.
LargeMap(s) ==
    IF s = "3_randomforest" THEN (test_size_inv * (num_images - 1)) \div 3 + 1
    ELSE test_size_inv * (num_images - 1) + 1

MapSizes(s) == (0 .. MaxLines) \cup { LargeMap(s) }

\* Sequences of length n over S whose entries after MaxLines are all `good`.
Choices(n, S, good) ==
    LET free == IF n < MaxLines THEN n ELSE MaxLines
    IN  { [ i \in 1 .. n |-> IF i <= free THEN f[i] ELSE good ] :
            f \in [ 1 .. free -> S ] }

-----------------------------------------------------------------------------
(* The stages of a run *)

Stages3 ==
    << "get_training_data", "preprocess_training_data", "augment_flip",
       "augment_flip_rotate_90", "combine", "show_samples", "train_test_split",
       "encode", "fit", "predict", "dump", "confusion_matrix", "render",
       "show_tests", "classification_report", "done" >>

StagesRF ==
    << "get_training_data", "load_images", "load_labels", "train_test_split",
       "encode", "fit", "predict", "confusion_matrix", "render", "show_tests",
       "done" >>

StagesOf(s) == IF s = "3_randomforest" THEN Stages3 ELSE StagesRF

\* The stages that load data: everything before the datasets are combined or split.
LoadStages ==
    { "get_training_data", "preprocess_training_data", "augment_flip",
      "augment_flip_rotate_90", "load_images", "load_labels" }

\* The stage that follows `stage` in the running script.
NextPc(stage) ==
    LET st == StagesOf(script)
        i  == CHOOSE k \in DOMAIN st : st[k] = stage
    IN  st[i + 1]

\* A mutant of OnException: the exception is caught and the script goes on.
OnExceptionSwallowed(stage) == NextPc(stage)

\* Neither script has a try statement: an exception raised at module level ends
\* the run.
OnException(stage) == "terminated"

Begin(stage) ==
    /\ pc = stage
    /\ log' = Append(log, stage)

Raise(stage, type) ==
    /\ pc' = OnException(stage)
    /\ raised' = Append(raised, [ at |-> stage, type |-> type ])

Continue(stage) ==
    /\ pc' = NextPc(stage)
    /\ UNCHANGED raised

-----------------------------------------------------------------------------
(* Loading: what the code does with one file *)

\* numpy's rule for  target[:, :, k] = value : a value of shape (a, b) fills a
\* target of shape (A, B) when each of its sides is the target's or 1.
Broadcasts(a, b, A, B) == (a = A \/ a = 1) /\ (b = B \/ b = 1)

Vector(len, src, aug) == [ len |-> len, src |-> src, aug |-> aug ]

\* preprocess_image: open the raster and read bands 1 to 4.
PreprocessImageError(f) ==
    IF f.status # "ok" THEN "RasterioIOError"
    ELSE IF f.count < 4 THEN "IndexError"
    ELSE "none"

\* band[alpha != 0] is a one-dimensional array of the opaque pixels; resize
\* stretches it to (nX, nY). With no opaque pixel the array is empty, the zoom
\* factor is a division by zero and the resampling raises.
MaskResizeError(f) == IF f.opaque = 0 THEN "ValueError" ELSE "none"

\* One pass of the image loop of preprocess_training_data. rgb is
\* np.zeros([nX, nY, 3]) and red, as rasterio reads it, has shape (nY, nX).
PreprocessError(f) ==
    IF PreprocessImageError(f) # "none" THEN PreprocessImageError(f)
    ELSE IF ~ Broadcasts(f.height, f.width, f.width, f.height) THEN "ValueError"
    ELSE MaskResizeError(f)

\* One pass of the image loop of augment_flip and of augment_flip_rotate_90.
AugmentError(f) ==
    IF PreprocessImageError(f) # "none" THEN PreprocessImageError(f)
    ELSE MaskResizeError(f)

\* rgb = np.zeros([nX, nY, 3]); rgb.flatten()
FlattenedLen(f) == f.width * f.height * 3

\* cv2.warpAffine(rgb_flip, rotation_matrix, (nY, nX)): nX rows of nY pixels.
RotatedLen(f) == f.width * f.height * 3

\* One pass of the image loop of randomforest.py: gdal.Open gives None for a file
\* it cannot open and GetRasterBand gives None for a band the file has not.
LoadImageError(f) ==
    IF f.status # "ok" THEN "AttributeError"
    ELSE IF f.count < 4 THEN "AttributeError"
    ELSE IF ~ Broadcasts(f.height, f.width, step_size, step_size) THEN "ValueError"
    ELSE "none"

\* datas = np.zeros([step_size, step_size, 4]); datas.flatten()
DatasLen(f) == step_size * step_size * 4

\* ET.parse, then the loop over root.iter('name').
ExtractError(d) ==
    IF d.status = "missing" THEN "FileNotFoundError"
    ELSE IF d.status = "malformed" THEN "ParseError"
    ELSE IF d.names = << >> THEN "UnboundLocalError"
    ELSE "none"

\* A mutant of extract_classification: the first name element, not the last.
ExtractFirstName(d) == d.names[1]

\* extract_classification: the loop leaves the text of the last name element.
ExtractClassification(d) == Last(d.names)

ParseError(d) ==
    IF d.status = "missing" THEN "FileNotFoundError"
    ELSE IF d.status = "malformed" THEN "ParseError"
    ELSE "none"

\* The label loop of randomforest.py: one label for every name element.
RECURSIVE AllNames(_)
AllNames(ds) ==
    IF ds = << >> THEN << >>
    ELSE ds[1].names \o AllNames(Tail(ds))

\* The label loop of the three functions of 3_randomforest.py.
LabelsOf(ds) == [ i \in DOMAIN ds |-> ExtractClassification(ds[i]) ]

FirstError(errs) ==
    IF \A i \in DOMAIN errs : errs[i] = "none" THEN "none"
    ELSE errs[CHOOSE i \in DOMAIN errs :
                 /\ errs[i] # "none"
                 /\ \A j \in 1 .. i - 1 : errs[j] = "none"]

-----------------------------------------------------------------------------
(* Splitting, training and reporting: what the library calls give *)

CountOf(seq, c) == Cardinality({ i \in DOMAIN seq : seq[i] = c })

\* An array of labels up to order: how many samples of each class.
LabelBag(seq) == [ c \in Classes |-> CountOf(seq, c) ]

EmptyBag == [ c \in Classes |-> 0 ]

\* np.unique and LabelEncoder.classes_: the classes present, sorted.
Unique(bag) == SelectSeq(ClassOrder, LAMBDA c : bag[c] > 0)

\* ceil(test_size * n_samples)
NTest(n) == (n + test_size_inv - 1) \div test_size_inv

\* The test sets train_test_split can give, up to order: nt of the samples.
TestBags(bag, nt) ==
    { t \in [ Classes -> 0 .. nt ] :
        /\ \A c \in Classes : t[c] <= bag[c]
        /\ SumOver(t, Classes) = nt }

NoPairs == [ p \in Classes \X Classes |-> 0 ]

\* What predict can give: every test sample gets a class seen in training.
Predictions(test, train) ==
    { P \in [ Classes \X Classes -> 0 .. SumOver(test, Classes) ] :
        /\ \A c \in Classes :
              SumOver([ p \in Classes |-> P[<< c, p >>] ], Classes) = test[c]
        /\ \A c, p \in Classes : train[p] = 0 => P[<< c, p >>] = 0 }

\* sklearn's confusion_matrix orders rows and columns by the sorted labels that
\* occur in y_test or in y_pred.
MatrixLabels(test, P) ==
    SelectSeq(ClassOrder,
              LAMBDA c : test[c] > 0 \/ \E t \in Classes : P[<< t, c >>] > 0)

ConfusionMatrix(test, P) ==
    LET ls == MatrixLabels(test, P)
    IN  [ i \in DOMAIN ls |-> [ j \in DOMAIN ls |-> P[<< ls[i], ls[j] >>] ] ]

\* The cells the two nested loops over range(len(class_names)) visit, in order.
LoopCells(n) == [ k \in 1 .. n * n |-> << ((k - 1) \div n) + 1, ((k - 1) % n) + 1 >> ]

\* The number of cells printed before confusion_matrix[i, j] leaves the matrix.
PrintedCells(n, m) ==
    LET cells == LoopCells(n)
        bad   == { k \in DOMAIN cells : cells[k][1] > m \/ cells[k][2] > m }
    IN  IF bad = {} THEN n * n
        ELSE (CHOOSE k \in bad : \A l \in bad : k <= l) - 1

\* The lines  "Label: ..." / "Predicted: ..., Count: ..."  the loop prints.
PrintedLines(names, matrix) ==
    LET n     == Len(names)
        cells == LoopCells(n)
    IN  [ k \in 1 .. PrintedCells(n, Len(matrix)) |->
            [ label     |-> names[cells[k][1]],
              predicted |-> names[cells[k][2]],
              count     |-> matrix[cells[k][1]][cells[k][2]] ] ]

\* A mutant of ConcatDatasets: the two augmented parts in the other order.
ConcatSwapped(a, b, c) == a \o c \o b

\* combined.extend(original); combined.extend(flipped); combined.extend(rotated)
ConcatDatasets(a, b, c) == a \o b \o c

\* A mutant of PickleDump: the model is not saved.
PickleDumpSkipped(w) == w

\* pickle.dump(model, open('model.pkl', "wb"))
PickleDump(w) == Append(w, "model.pkl")

\* graph.render("decision_tree") writes the source and the rendered PDF.
GraphRender(w) == w \o << "decision_tree", "decision_tree.pdf" >>

-----------------------------------------------------------------------------
(* A run of a script *)

pathVars  == << image_path, label_path >>
fileVars  == << rasters, docs >>
dataVars  == << images, labels >>
augVars   == << augmented_images, augmented_labels, augmented_images2, augmented_labels2 >>
splitVars == << y_train, y_test >>
modelVars == << classes_, fitted, y_pred, predicted, printed >>
fnVars    == << map_text, map_out, tile, fn_out >>

NoMapOut == [ status |-> "none", image_path |-> << >>, label_path |-> << >> ]
NoTile   == [ nX |-> 0, nY |-> 0, red |-> << >>, green |-> << >>, blue |-> << >>,
              alpha |-> << >> ]
NoFnOut  == [ preprocess |-> << >>, flip |-> << >>, rotate |-> << >> ]

InitRun ==
    /\ pc = "get_training_data"
    /\ raised = << >>
    /\ log = << >>
    /\ mapfile = << >>
    /\ rasters = << >>
    /\ docs = << >>
    /\ image_path = << >>
    /\ label_path = << >>
    /\ images = << >>
    /\ labels = << >>
    /\ augmented_images = << >>
    /\ augmented_labels = << >>
    /\ augmented_images2 = << >>
    /\ augmented_labels2 = << >>
    /\ y_train = EmptyBag
    /\ y_test = EmptyBag
    /\ classes_ = << >>
    /\ fitted = FALSE
    /\ y_pred = NoPairs
    /\ predicted = FALSE
    /\ printed = << >>
    /\ written = << >>

Init ==
    /\ script \in Scripts
    /\ InitRun
    /\ map_text = << >>
    /\ map_out = NoMapOut
    /\ tile = NoTile
    /\ fn_out = NoFnOut

\* get_training_data, and the map file loop of randomforest.py: a line that has
\* no second field has no element[1].
GetTrainingData ==
    /\ Begin("get_training_data")
    /\ \/ /\ Raise("get_training_data", "FileNotFoundError")
          /\ UNCHANGED << mapfile, pathVars >>
       \/ \E n \in MapSizes(script) :
          \E ls \in Choices(n, { "pair", "blank" }, "pair") :
             /\ mapfile' = ls
             /\ IF \E i \in 1 .. n : ls[i] = "blank"
                THEN /\ Raise("get_training_data", "IndexError")
                     /\ UNCHANGED pathVars
                ELSE /\ image_path' = [ i \in 1 .. n |-> i ]
                     /\ label_path' = [ i \in 1 .. n |-> i ]
                     /\ Continue("get_training_data")
    /\ UNCHANGED << script, fileVars, dataVars, augVars, splitVars, modelVars,
                    written, fnVars >>

\* images, labels, = preprocess_training_data(image_path, label_path)
PreprocessTrainingData ==
    /\ script = "3_randomforest"
    /\ Begin("preprocess_training_data")
    /\ \E imgs \in Choices(Len(image_path), RasterFiles, GoodTile) :
          LET errs == [ i \in DOMAIN imgs |-> PreprocessError(imgs[i]) ]
          IN  /\ rasters' = imgs
              /\ IF FirstError(errs) # "none"
                 THEN /\ Raise("preprocess_training_data", FirstError(errs))
                      /\ UNCHANGED << docs, dataVars >>
                 ELSE \E ds \in Choices(Len(label_path), DocFiles, GoodDoc) :
                         LET derrs == [ i \in DOMAIN ds |-> ExtractError(ds[i]) ]
                         IN  /\ docs' = ds
                             /\ IF FirstError(derrs) # "none"
                                THEN /\ Raise("preprocess_training_data", FirstError(derrs))
                                     /\ UNCHANGED dataVars
                                ELSE /\ images' = [ i \in DOMAIN imgs |->
                                                     Vector(FlattenedLen(imgs[i]), i, "none") ]
                                     /\ labels' = LabelsOf(ds)
                                     /\ Continue("preprocess_training_data")
    /\ UNCHANGED << script, mapfile, pathVars, augVars, splitVars, modelVars,
                    written, fnVars >>

\* What an augmenting function does with the files the run has already read.
AugmentedImages(aug) ==
    [ i \in DOMAIN image_path |->
        Vector(IF aug = "rot90" THEN RotatedLen(rasters[image_path[i]])
               ELSE FlattenedLen(rasters[image_path[i]]),
               image_path[i], aug) ]

AugmentErrors ==
    FirstError([ i \in DOMAIN image_path |-> AugmentError(rasters[image_path[i]]) ]
               \o [ i \in DOMAIN label_path |-> ExtractError(docs[label_path[i]]) ])

\* augmented_images, augmented_labels = augment_flip(image_path, label_path)
AugmentFlip ==
    /\ script = "3_randomforest"
    /\ Begin("augment_flip")
    /\ IF AugmentErrors # "none"
       THEN /\ Raise("augment_flip", AugmentErrors)
            /\ UNCHANGED augVars
       ELSE /\ augmented_images' = AugmentedImages("flip")
            /\ augmented_labels' = LabelsOf([ i \in DOMAIN label_path |-> docs[label_path[i]] ])
            /\ UNCHANGED << augmented_images2, augmented_labels2 >>
            /\ Continue("augment_flip")
    /\ UNCHANGED << script, mapfile, pathVars, fileVars, dataVars, splitVars,
                    modelVars, written, fnVars >>

\* augmented_images2, augmented_labels2 = augment_flip_rotate_90(image_path, label_path)
AugmentFlipRotate90 ==
    /\ script = "3_randomforest"
    /\ Begin("augment_flip_rotate_90")
    /\ IF AugmentErrors # "none"
       THEN /\ Raise("augment_flip_rotate_90", AugmentErrors)
            /\ UNCHANGED augVars
       ELSE /\ augmented_images2' = AugmentedImages("rot90")
            /\ augmented_labels2' = LabelsOf([ i \in DOMAIN label_path |-> docs[label_path[i]] ])
            /\ UNCHANGED << augmented_images, augmented_labels >>
            /\ Continue("augment_flip_rotate_90")
    /\ UNCHANGED << script, mapfile, pathVars, fileVars, dataVars, splitVars,
                    modelVars, written, fnVars >>

\* The combined lists, then images = np.array(combined_images). Vectors of
\* different lengths make numpy raise from version 1.24 on and give an array of
\* objects before.
CombineDatasets ==
    /\ script = "3_randomforest"
    /\ Begin("combine")
    /\ LET combined_images ==
               ConcatDatasets(images, augmented_images, augmented_images2)
           combined_labels ==
               ConcatDatasets(labels, augmented_labels, augmented_labels2)
           ragged ==
               Cardinality({ combined_images[i].len : i \in DOMAIN combined_images }) > 1
       IN  \/ /\ ragged
              /\ Raise("combine", "ValueError")
              /\ UNCHANGED dataVars
           \/ /\ images' = combined_images
              /\ labels' = combined_labels
              /\ Continue("combine")
    /\ UNCHANGED << script, mapfile, pathVars, fileVars, augVars, splitVars,
                    modelVars, written, fnVars >>

\* The loop over range(num_samples): images[i].reshape(50, 50, 3)
ShowSamples ==
    /\ script = "3_randomforest"
    /\ Begin("show_samples")
    /\ IF Len(images) < num_samples
       THEN Raise("show_samples", "IndexError")
       ELSE IF \E i \in 1 .. num_samples : images[i].len # sample_side * sample_side * 3
       THEN Raise("show_samples", "ValueError")
       ELSE Continue("show_samples")
    /\ UNCHANGED << script, mapfile, pathVars, fileVars, dataVars, augVars,
                    splitVars, modelVars, written, fnVars >>

\* The image loop of randomforest.py.
LoadImages ==
    /\ script = "randomforest"
    /\ Begin("load_images")
    /\ \E imgs \in Choices(Len(image_path), RasterFiles, GoodTile) :
          LET errs == [ i \in DOMAIN imgs |-> LoadImageError(imgs[i]) ]
          IN  /\ rasters' = imgs
              /\ IF FirstError(errs) # "none"
                 THEN /\ Raise("load_images", FirstError(errs))
                      /\ UNCHANGED images
                 ELSE /\ images' = [ i \in DOMAIN imgs |->
                                      Vector(DatasLen(imgs[i]), i, "none") ]
                      /\ Continue("load_images")
    /\ UNCHANGED << script, mapfile, pathVars, docs, labels, augVars, splitVars,
                    modelVars, written, fnVars >>

\* The label loop of randomforest.py.
LoadLabels ==
    /\ script = "randomforest"
    /\ Begin("load_labels")
    /\ \E ds \in Choices(Len(label_path), DocFiles, GoodDoc) :
          LET errs == [ i \in DOMAIN ds |-> ParseError(ds[i]) ]
          IN  /\ docs' = ds
              /\ IF FirstError(errs) # "none"
                 THEN /\ Raise("load_labels", FirstError(errs))
                      /\ UNCHANGED labels
                 ELSE /\ labels' = AllNames(ds)
                      /\ Continue("load_labels")
    /\ UNCHANGED << script, mapfile, pathVars, rasters, images, augVars, splitVars,
                    modelVars, written, fnVars >>

\* train_test_split(images, labels, test_size=0.2, random_state=60): the arrays
\* must be as long as each other and leave a sample to train on.
TrainTestSplit ==
    /\ Begin("train_test_split")
    /\ LET n == Len(images)
       IN  IF Len(labels) # n \/ n - NTest(n) <= 0
           THEN /\ Raise("train_test_split", "ValueError")
                /\ UNCHANGED splitVars
           ELSE \E t \in TestBags(LabelBag(labels), NTest(n)) :
                   /\ y_test' = t
                   /\ y_train' = [ c \in Classes |-> LabelBag(labels)[c] - t[c] ]
                   /\ Continue("train_test_split")
    /\ UNCHANGED << script, mapfile, pathVars, fileVars, dataVars, augVars,
                    modelVars, written, fnVars >>

\* label_encoder.fit_transform(y_train); label_encoder.transform(y_test)
EncodeLabels ==
    /\ Begin("encode")
    /\ classes_' = Unique(y_train)
    /\ IF \E c \in Classes : y_test[c] > 0 /\ y_train[c] = 0
       THEN Raise("encode", "ValueError")
       ELSE Continue("encode")
    /\ UNCHANGED << script, mapfile, pathVars, fileVars, dataVars, augVars,
                    splitVars, fitted, y_pred, predicted, printed, written, fnVars >>

\* model.fit(X_train, y_train)
FitClassifier ==
    /\ Begin("fit")
    /\ fitted' = TRUE
    /\ Continue("fit")
    /\ UNCHANGED << script, mapfile, pathVars, fileVars, dataVars, augVars,
                    splitVars, classes_, y_pred, predicted, printed, written, fnVars >>

\* y_pred = model.predict(X_test)
Predict ==
    /\ Begin("predict")
    /\ \E P \in Predictions(y_test, y_train) : y_pred' = P
    /\ predicted' = TRUE
    /\ Continue("predict")
    /\ UNCHANGED << script, mapfile, pathVars, fileVars, dataVars, augVars,
                    splitVars, classes_, fitted, printed, written, fnVars >>

\* pickle.dump(model, open('model.pkl',"wb"))
DumpModel ==
    /\ script = "3_randomforest"
    /\ Begin("dump")
    /\ written' = PickleDump(written)
    /\ Continue("dump")
    /\ UNCHANGED << script, mapfile, pathVars, fileVars, dataVars, augVars,
                    splitVars, modelVars, fnVars >>

\* accuracy_score, confusion_matrix and the printout of the matrix with
\* class_names = label_encoder.classes_
PrintConfusionMatrix ==
    /\ Begin("confusion_matrix")
    /\ LET class_names == classes_
           confusion_matrix == ConfusionMatrix(y_test, y_pred)
           lines == PrintedLines(class_names, confusion_matrix)
       IN  /\ printed' = lines
           /\ IF Len(lines) < Len(class_names) * Len(class_names)
              THEN Raise("confusion_matrix", "IndexError")
              ELSE Continue("confusion_matrix")
    /\ UNCHANGED << script, mapfile, pathVars, fileVars, dataVars, augVars,
                    splitVars, classes_, fitted, y_pred, predicted, written, fnVars >>

\* export_graphviz, Source(dot_data), graph.render("decision_tree")
RenderTree ==
    /\ Begin("render")
    /\ written' = GraphRender(written)
    /\ Continue("render")
    /\ UNCHANGED << script, mapfile, pathVars, fileVars, dataVars, augVars,
                    splitVars, modelVars, fnVars >>

\* The loop over range(num_images): X_test[i].reshape(...), y_test[i], y_pred[i]
ShowTests ==
    /\ Begin("show_tests")
    /\ IF SumOver(y_test, Classes) < num_images
       THEN Raise("show_tests", "IndexError")
       ELSE Continue("show_tests")
    /\ UNCHANGED << script, mapfile, pathVars, fileVars, dataVars, augVars,
                    splitVars, modelVars, written, fnVars >>

\* classification_report(y_test, y_pred)
ClassificationReport ==
    /\ script = "3_randomforest"
    /\ Begin("classification_report")
    /\ Continue("classification_report")
    /\ UNCHANGED << script, mapfile, pathVars, fileVars, dataVars, augVars,
                    splitVars, modelVars, written, fnVars >>

Next ==
    \/ GetTrainingData
    \/ PreprocessTrainingData
    \/ AugmentFlip
    \/ AugmentFlipRotate90
    \/ CombineDatasets
    \/ ShowSamples
    \/ LoadImages
    \/ LoadLabels
    \/ TrainTestSplit
    \/ EncodeLabels
    \/ FitClassifier
    \/ Predict
    \/ DumpModel
    \/ PrintConfusionMatrix
    \/ RenderTree
    \/ ShowTests
    \/ ClassificationReport

Spec == Init /\ [][Next]_vars

-----------------------------------------------------------------------------
(* Properties of a run *)

Channels == IF script = "3_randomforest" THEN 3 ELSE 4

Augmentations == << "none", "flip", "rot90" >>

\* C1: in randomforest.py, at train_test_split, there are as many labels as
\* feature vectors and labels[i] is a class name of the annotation the map file
\* pairs with the image of images[i], however many name elements a document has.
C1_LabelsMatchImages ==
    (script = "randomforest" /\ pc = "train_test_split") =>
        /\ Len(labels) = Len(images)
        /\ \A i \in DOMAIN images :
              labels[i] \in Range(docs[label_path[images[i].src]].names)

\* C2: in 3_randomforest.py the dataset given to train_test_split has 3N vectors
\* and 3N labels for a map of N lines: the originals, then the flipped, then the
\* rotated; entry i comes from line i mod N and carries that line's class.
C2_CombinedLayout ==
    (script = "3_randomforest" /\ pc = "train_test_split") =>
        LET N == Len(mapfile)
        IN  /\ Len(images) = 3 * N
            /\ Len(labels) = 3 * N
            /\ \A i \in 1 .. 3 * N :
                  LET line == ((i - 1) % N) + 1
                  IN  /\ images[i].src = image_path[line]
                      /\ images[i].aug = Augmentations[((i - 1) \div N) + 1]
                      /\ labels[i] \in Range(docs[label_path[line]].names)

C2_Witness ==
    /\ script = "3_randomforest"
    /\ pc = "train_test_split"
    /\ Len(mapfile) >= 2
    /\ \E i, j \in DOMAIN labels : labels[i] # labels[j]

\* C3: every feature vector appended to an image list has length
\* width * height * channels of its raster: 3 channels in 3_randomforest.py,
\* 4 in randomforest.py.
C3_FeatureLength ==
    \A v \in Range(images) \cup Range(augmented_images) \cup Range(augmented_images2) :
        v.len = rasters[v.src].width * rasters[v.src].height * Channels

\* C5: a failure while loading data ends the run there: the exception is the
\* only one, no later stage has run, no classifier is fitted, no prediction is
\* made and no file is written.
C5_LoadFailureTerminates ==
    \A k \in DOMAIN raised :
        raised[k].at \in LoadStages =>
            /\ pc = "terminated"
            /\ Len(raised) = 1
            /\ Last(log) = raised[k].at
            /\ ~ fitted
            /\ ~ predicted
            /\ printed = << >>
            /\ written = << >>

C5_Witness ==
    /\ pc = "terminated"
    /\ raised = << [ at |-> "preprocess_training_data", type |-> "UnboundLocalError" ] >>
    /\ \E i \in DOMAIN docs : docs[i] = Doc(<< >>)

Exited == pc \in { "done", "terminated" }

\* C6 as stated: at process exit nothing is left behind but a single model file,
\* and a run that completes has written exactly model.pkl, once.
C6_OnlyModelFile ==
    Exited =>
        /\ Range(written) \subseteq { "model.pkl" }
        /\ pc = "done" => written = << "model.pkl" >>

\* C6 as amended: a run writes nothing but model.pkl and the rendered tree
\* (decision_tree, decision_tree.pdf); model.pkl is written at most once and
\* only by 3_randomforest.py; a run of 3_randomforest.py that completes has
\* written model.pkl and then the tree, one of randomforest.py only the tree.
C6_FilesWritten ==
    /\ Range(written) \subseteq { "model.pkl", "decision_tree", "decision_tree.pdf" }
    /\ CountOf(written, "model.pkl") <= 1
    /\ script = "randomforest" => "model.pkl" \notin Range(written)
    /\ pc = "done" =>
          written = IF script = "3_randomforest"
                    THEN << "model.pkl", "decision_tree", "decision_tree.pdf" >>
                    ELSE << "decision_tree", "decision_tree.pdf" >>

C6_Witness ==
    /\ pc = "done"
    /\ script = "3_randomforest"
    /\ written = << "model.pkl", "decision_tree", "decision_tree.pdf" >>

\* C9: once the confusion-matrix printout has run, it has printed a line for
\* every i, j in range(len(class_names)) without an index error, and the count
\* of each line is the number of test samples whose true label is the line's
\* label and whose predicted label is the line's predicted class.
C9_PrintoutCorrect ==
    "confusion_matrix" \in Range(log) =>
        /\ \A k \in DOMAIN raised : raised[k].at # "confusion_matrix"
        /\ Len(printed) = Len(classes_) * Len(classes_)
        /\ \A k \in DOMAIN printed :
              printed[k].count = y_pred[<< printed[k].label, printed[k].predicted >>]

OneLabelPerDocument(ls) ==
    /\ Len(ls) = Len(label_path)
    /\ \A i \in DOMAIN ls :
          LET names == docs[label_path[i]].names
          IN  /\ names # << >>
              /\ ls[i] = names[Len(names)]

\* C10: each of preprocess_training_data, augment_flip and
\* augment_flip_rotate_90 returns one label per annotation path, the text of the
\* document's last name element, however many name elements the document has.
C10_OneClassPerDocument ==
    script = "3_randomforest" =>
        /\ pc \in { "augment_flip", "augment_flip_rotate_90" } => OneLabelPerDocument(labels)
        /\ pc \in { "augment_flip_rotate_90", "combine" } => OneLabelPerDocument(augmented_labels)
        /\ pc = "combine" =>  OneLabelPerDocument(augmented_labels2)

C10_Witness ==
    /\ script = "3_randomforest"
    /\ pc = "combine"
    /\ \E i \in DOMAIN docs : Len(docs[i].names) = 2
    /\ Len(augmented_labels2) = Len(label_path)

-----------------------------------------------------------------------------
(* get_training_data on the text of a map file *)

\* The longest map file of SpecMap, in lines.
MaxMapLines == 2

\* path_to_data, one character standing for the folder
path_to_data == << "d" >>

Whitespace == { " ", "\n" }

\* The paths a line of the map file can hold; the empty path is the blank line's.
Paths == { << "a" >>, << "a", "\\", "b" >>, << "a", " ", "b" >> }
BlankLine == [ image |-> << >>, label |-> << >> ]
MapLines == { [ image |-> p, label |-> q ] : p, q \in Paths } \cup { BlankLine }

\* The text of one line of the file, without its line end.
LineText(l) == IF l = BlankLine THEN << >> ELSE l.image \o << " " >> \o l.label

\* The text of a file of lines ls; the last line ends the file with or without
\* a line end.
RECURSIVE FileText(_, _)
FileText(ls, newline_at_end) ==
    IF ls = << >> THEN << >>
    ELSE IF Len(ls) = 1
         THEN LineText(ls[1]) \o (IF newline_at_end THEN << "\n" >> ELSE << >>)
         ELSE LineText(ls[1]) \o << "\n" >> \o FileText(Tail(ls), newline_at_end)

\* file.readlines(): the text cut after every line end
RECURSIVE ReadLinesFrom(_, _)
ReadLinesFrom(text, current) ==
    IF text = << >>
    THEN IF current = << >> THEN << >> ELSE << current >>
    ELSE IF Head(text) = "\n"
         THEN << Append(current, "\n") >> \o ReadLinesFrom(Tail(text), << >>)
         ELSE ReadLinesFrom(Tail(text), Append(current, Head(text)))

ReadLines(text) == ReadLinesFrom(text, << >>)

\* str.strip(ch): ch taken off both ends
RECURSIVE StripLeft(_, _)
StripLeft(str, ch) ==
    IF str # << >> /\ Head(str) = ch THEN StripLeft(Tail(str), ch) ELSE str

RECURSIVE StripRight(_, _)
StripRight(str, ch) ==
    IF str # << >> /\ str[Len(str)] = ch
    THEN StripRight(SubSeq(str, 1, Len(str) - 1), ch)
    ELSE str

Strip(str, ch) == StripRight(StripLeft(str, ch), ch)

\* A mutant of Replace: the string is left as it is.
ReplaceNothing(str, old, new) == str

\* str.replace(old, new) for single characters
Replace(str, old, new) == [ i \in DOMAIN str |-> IF str[i] = old THEN new ELSE str[i] ]

\* str.split(): the fields between runs of whitespace
RECURSIVE SplitFrom(_, _)
SplitFrom(str, current) ==
    IF str = << >>
    THEN IF current = << >> THEN << >> ELSE << current >>
    ELSE IF Head(str) \in Whitespace
         THEN (IF current = << >> THEN << >> ELSE << current >>)
              \o SplitFrom(Tail(str), << >>)
         ELSE SplitFrom(Tail(str), Append(current, Head(str)))

Split(str) == SplitFrom(str, << >>)

\* The fields of one line, as the body of the loop computes them.
Element(line) == Split(Replace(Strip(line, "\n"), "\\", "/"))

\* get_training_data on the text of map.txt: the two lists, or the IndexError of
\* element[0] or element[1] on a line with fewer than two fields.
GetTrainingDataOf(text) ==
    LET elements == [ i \in DOMAIN ReadLines(text) |-> Element(ReadLines(text)[i]) ]
    IN  IF \E i \in DOMAIN elements : Len(elements[i]) < 2
        THEN [ status |-> "IndexError", image_path |-> << >>, label_path |-> << >> ]
        ELSE [ status |-> "returned",
               image_path |-> [ i \in DOMAIN elements |->
                                  path_to_data \o << "/" >> \o elements[i][1] ],
               label_path |-> [ i \in DOMAIN elements |->
                                  path_to_data \o << "/" >> \o elements[i][2] ] ]

InitMap ==
    /\ script = "3_randomforest"
    /\ InitRun
    /\ \E n \in 0 .. MaxMapLines :
       \E ls \in [ 1 .. n -> MapLines ] :
       \E newline_at_end \in BOOLEAN :
          /\ (n > 0 /\ ls[n] = BlankLine) => newline_at_end
          /\ map_text = [ lines |-> ls, text |-> FileText(ls, newline_at_end) ]
    /\ map_out = NoMapOut
    /\ tile = NoTile
    /\ fn_out = NoFnOut

CallGetTrainingData ==
    /\ map_out.status = "none"
    /\ map_out' = GetTrainingDataOf(map_text.text)
    /\ UNCHANGED << runVars, map_text, tile, fn_out >>

NextMap == CallGetTrainingData

SpecMap == InitMap /\ [][NextMap]_vars

\* The path the code is to make of a path of the map file.
Joined(path) ==
    path_to_data \o << "/" >>
        \o [ i \in DOMAIN path |-> IF path[i] = "\\" THEN "/" ELSE path[i] ]

PathsAsInFile ==
    /\ map_out.status = "returned"
    /\ Len(map_out.image_path) = Len(map_text.lines)
    /\ Len(map_out.label_path) = Len(map_text.lines)
    /\ \A i \in DOMAIN map_text.lines :
          /\ map_out.image_path[i] = Joined(map_text.lines[i].image)
          /\ map_out.label_path[i] = Joined(map_text.lines[i].label)

\* C4 as stated: for a map file of N lines get_training_data returns two lists
\* of length N, in file order, of the prefixed first and second path of each
\* line with backslashes turned to slashes; also for a blank line and for a
\* line whose paths hold whitespace.
C4_EveryLine == map_out.status # "none" => PathsAsInFile

TwoFields(l) ==
    /\ l # BlankLine
    /\ \A i \in DOMAIN l.image : l.image[i] \notin Whitespace
    /\ \A i \in DOMAIN l.label : l.label[i] \notin Whitespace

\* C4 as amended: the lists are as stated when every line holds two paths free
\* of whitespace; a blank line makes the call raise IndexError and return
\* nothing.
C4_TwoFieldLines ==
    map_out.status # "none" =>
        /\ (\A i \in DOMAIN map_text.lines : TwoFields(map_text.lines[i])) => PathsAsInFile
        /\ (\E i \in DOMAIN map_text.lines : map_text.lines[i] = BlankLine)
              => map_out.status = "IndexError"

C4_Witness ==
    /\ map_out.status = "returned"
    /\ Len(map_text.lines) = 2
    /\ \A i \in DOMAIN map_text.lines : TwoFields(map_text.lines[i])
    /\ map_text.lines[1].image = << "a", "\\", "b" >>
    /\ map_out.image_path[1] = << "d", "/", "a", "/", "b" >>

-----------------------------------------------------------------------------
(* The per-image transformations of 3_randomforest.py, pixel by pixel *)

\* The longest side of a tile of SpecFn, in pixels.
MaxSide == 2

\* The largest value of a pixel of an 8-bit band.
PixelMax == 2 ^ 8 - 1

\* A band is a sequence of nY rows of nX pixels, as dataset.read gives it.
Band(nX, nY, offset) ==
    [ r \in 1 .. nY |-> [ c \in 1 .. nX |-> (r - 1) * nX + c + offset ] ]

\* The tiles: every side up to MaxSide, every alpha mask, and colour bands
\* whose pixels all differ.
Tiles ==
    UNION { { [ nX |-> w, nY |-> h,
                red |-> Band(w, h, 0), green |-> Band(w, h, 10),
                blue |-> Band(w, h, 20), alpha |-> a ] :
              a \in [ 1 .. h -> [ 1 .. w -> { 0, PixelMax } ] ] } :
            w \in 1 .. MaxSide, h \in 1 .. MaxSide }

\* A value of a float image: num / den when the code's arithmetic gives it
\* exactly, and otherwise the library's interpolation of the samples `of` at
\* place `at`, which the model does not compute.
Exact(v) == [ kind |-> "exact", num |-> v, den |-> PixelMax, of |-> << >>, at |-> 0 ]
Interpolated(samples, place) ==
    [ kind |-> "interpolated", num |-> 0, den |-> PixelMax, of |-> samples, at |-> place ]
Zero == Exact(0)

\* np.flipud: the rows in reverse order
FlipUD(band) == [ r \in DOMAIN band |-> band[Len(band) + 1 - r] ]

\* band[alpha != 0]: the pixels whose alpha is not 0, row after row
RECURSIVE MaskedRow(_, _)
MaskedRow(row, arow) ==
    IF row = << >> THEN << >>
    ELSE (IF Head(arow) # 0 THEN << Head(row) >> ELSE << >>)
         \o MaskedRow(Tail(row), Tail(arow))

RECURSIVE Masked(_, _)
Masked(band, alpha) ==
    IF band = << >> THEN << >>
    ELSE MaskedRow(Head(band), Head(alpha)) \o Masked(Tail(band), Tail(alpha))

\* resize(samples, (rows, cols)) of a one-dimensional array: the array is taken
\* as Len(samples) rows of one pixel, its integers are scaled to [0, 1], the one
\* column is repeated cols times and the rows are resampled to `rows` rows. With
\* as many samples as rows, or with equal samples, nothing is interpolated.
Resize(samples, rows, cols) ==
    [ r \in 1 .. rows |->
        [ c \in 1 .. cols |->
            IF Len(samples) = rows THEN Exact(samples[r])
            ELSE IF \A i \in DOMAIN samples : samples[i] = samples[1]
            THEN Exact(samples[1])
            ELSE Interpolated(samples, r) ] ]

\* rgb = np.zeros([nX, nY, 3]) filled with the three resized bands
Stack(r, g, b) ==
    [ i \in DOMAIN r |-> [ j \in DOMAIN r[i] |-> << r[i][j], g[i][j], b[i][j] >> ] ]

\* rgb.flatten(): row after row, pixel after pixel, channel after channel
Flatten(rgb, rows, cols) ==
    [ k \in 1 .. rows * cols * 3 |->
        rgb[((k - 1) \div (cols * 3)) + 1][(((k - 1) \div 3) % cols) + 1][((k - 1) % 3) + 1] ]

\* The masked and resized image of a tile whose bands are r, g, b and alpha a.
MaskedImage(t, r, g, b, a) ==
    Stack(Resize(Masked(r, a), t.nX, t.nY),
          Resize(Masked(g, a), t.nX, t.nY),
          Resize(Masked(b, a), t.nX, t.nY))

Opaque(t) == Len(Masked(t.alpha, t.alpha))

Result(status, vec) == [ status |-> status, vec |-> vec ]
NoResult == Result("none", << >>)

\* The body of the image loop of preprocess_training_data.
PreprocessTile(t) ==
    IF ~ Broadcasts(t.nY, t.nX, t.nX, t.nY) THEN Result("ValueError", << >>)
    ELSE IF Opaque(t) = 0 THEN Result("ValueError", << >>)
    ELSE Result("ok", Flatten(MaskedImage(t, t.red, t.green, t.blue, t.alpha), t.nX, t.nY))

\* The body of the image loop of augment_flip.
FlipTile(t) ==
    IF Opaque(t) = 0 THEN Result("ValueError", << >>)
    ELSE Result("ok",
                Flatten(MaskedImage(t, FlipUD(t.red), FlipUD(t.green), FlipUD(t.blue),
                                    FlipUD(t.alpha)),
                        t.nX, t.nY))

\* rotation_angle = 90
rotation_angle == 90

\* cv2.getRotationMatrix2D((nX/2, nY/2), 90, 1.0) is x' = y + (nX - nY)/2,
\* y' = -x + (nX + nY)/2, and cv2.warpAffine(rgb_flip, M, (nY, nX)) fills pixel
\* (x', y') of the result from the source pixel M sends there, with 0 where that
\* place is outside the source. The source has nX rows (y) of nY pixels (x).
\* Rows and columns are counted from 1 here.
WarpAffine(rgb, nX, nY) ==
    [ r \in 1 .. nX |->
        [ c \in 1 .. nY |->
            IF (nX + nY) % 2 # 0
            THEN [ ch \in 1 .. 3 |-> Interpolated(<< r, c, ch >>, rotation_angle) ]
            ELSE LET x == (nX + nY) \div 2 - (r - 1)
                     y == (c - 1) - (nX - nY) \div 2
                 IN  IF x \in 0 .. nY - 1 /\ y \in 0 .. nX - 1
                     THEN rgb[y + 1][x + 1]
                     ELSE << Zero, Zero, Zero >> ] ]

\* The body of the image loop of augment_flip_rotate_90.
RotateTile(t) ==
    IF Opaque(t) = 0 THEN Result("ValueError", << >>)
    ELSE Result("ok",
                Flatten(WarpAffine(MaskedImage(t, t.red, t.green, t.blue, t.alpha),
                                   t.nX, t.nY),
                        t.nX, t.nY))

InitFn ==
    /\ script = "3_randomforest"
    /\ InitRun
    /\ map_text = << >>
    /\ map_out = NoMapOut
    /\ tile \in Tiles
    /\ fn_out = [ preprocess |-> NoResult, flip |-> NoResult, rotate |-> NoResult ]

CallPreprocess ==
    /\ fn_out.preprocess.status = "none"
    /\ fn_out' = [ fn_out EXCEPT !.preprocess = PreprocessTile(tile) ]
    /\ UNCHANGED << runVars, map_text, map_out, tile >>

CallAugmentFlip ==
    /\ fn_out.flip.status = "none"
    /\ fn_out' = [ fn_out EXCEPT !.flip = FlipTile(tile) ]
    /\ UNCHANGED << runVars, map_text, map_out, tile >>

CallAugmentFlipRotate90 ==
    /\ fn_out.rotate.status = "none"
    /\ fn_out' = [ fn_out EXCEPT !.rotate = RotateTile(tile) ]
    /\ UNCHANGED << runVars, map_text, map_out, tile >>

NextFn ==
    \/ CallPreprocess
    \/ CallAugmentFlip
    \/ CallAugmentFlipRotate90

SpecFn == InitFn /\ [][NextFn]_vars

\* The place of pixel (r, c), channel ch, in a flattened image of `cols` columns.
Place(r, c, ch, cols) == ((r - 1) * cols + (c - 1)) * 3 + ch

AllExact(vec) == \A k \in DOMAIN vec : vec[k].kind = "exact"

\* C7: the feature vector augment_flip returns for an image is the one
\* preprocess_training_data returns for it with the pixel rows in reverse
\* order, in each of the three channels. (Held to the images for which resize
\* interpolates nothing, whose vectors the model knows value by value.)
C7_FlipReversesRows ==
    ( /\ fn_out.preprocess.status = "ok"
      /\ fn_out.flip.status = "ok"
      /\ AllExact(fn_out.preprocess.vec)
      /\ AllExact(fn_out.flip.vec) ) =>
        /\ Len(fn_out.flip.vec) = Len(fn_out.preprocess.vec)
        /\ \A r \in 1 .. tile.nX : \A c \in 1 .. tile.nY : \A ch \in 1 .. 3 :
              fn_out.flip.vec[Place(r, c, ch, tile.nY)]
                  = fn_out.preprocess.vec[Place(tile.nX + 1 - r, c, ch, tile.nY)]

\* C8: for a square image, the image augment_flip_rotate_90 flattens is the one
\* preprocess_training_data flattens turned 90 degrees anticlockwise: pixel
\* (r, c) of the result is pixel (c, n + 1 - r) of the source, so that every
\* source pixel is kept and nothing is filled with zero. (Held to the images for
\* which resize interpolates nothing.)
C8_RotatesAnticlockwise ==
    ( /\ tile.nX = tile.nY
      /\ fn_out.preprocess.status = "ok"
      /\ fn_out.rotate.status = "ok"
      /\ AllExact(fn_out.preprocess.vec)
      /\ AllExact(fn_out.rotate.vec) ) =>
        /\ Len(fn_out.rotate.vec) = Len(fn_out.preprocess.vec)
        /\ \A r \in 1 .. tile.nX : \A c \in 1 .. tile.nX : \A ch \in 1 .. 3 :
              fn_out.rotate.vec[Place(r, c, ch, tile.nX)]
                  = fn_out.preprocess.vec[Place(c, tile.nX + 1 - r, ch, tile.nX)]

====
